---- MODULE Spec2Model ----
(***************************************************************************)
(* Model of todolist-rust (src/src/main.rs): a terminal to-do list whose   *)
(* run loop saves the task list to a registry value, draws it, reads one   *)
(* or two input events and routes them to the App.                         *)
(*                                                                         *)
(* A Rust String is modelled as a sequence of characters, each with its    *)
(* UTF-8 width, so that byte offsets (String::len, String::insert) and     *)
(* character offsets (chars().take/skip) stay distinct.  The registry      *)
(* value is modelled as the sequence of JSON tokens serde_json writes.     *)
(***************************************************************************)
EXTENDS Integers, Sequences, FiniteSets, TLC

VARIABLES pc, err, input, cursor_position, input_mode, count, todos, editing,
          store, last, term, printed

vars == <<pc, err, input, cursor_position, input_mode, count, todos, editing,
          store, last, term, printed>>

app_vars == <<input, cursor_position, input_mode, count, todos, editing>>

main_vars == <<term, printed>>

(***************************************************************************)
(* Bounds of the model.                                                    *)
(***************************************************************************)
\* most tasks in the list
MaxTodos == 2
\* most edit flags in app.editing (each submit pushes one, nothing removes one)
MaxEditing == 4
\* most characters in the input buffer and all task texts together
MaxChars == 1

(***************************************************************************)
(* Characters and strings.                                                 *)
(***************************************************************************)
\* one single-byte and one two-byte character
Chars == {"a", "eacute"}

len_utf8(c) == IF c = "a" THEN 1 ELSE 2

RECURSIVE StrLen(_)
\* String::len: the length in bytes
StrLen(s) == IF s = <<>> THEN 0 ELSE len_utf8(Head(s)) + StrLen(Tail(s))

\* chars().take(n)
Take(s, n) == SubSeq(s, 1, IF n < Len(s) THEN n ELSE Len(s))

\* chars().skip(n)
Skip(s, n) == SubSeq(s, (IF n < Len(s) THEN n ELSE Len(s)) + 1, Len(s))

\* str::is_char_boundary: byte offset idx starts a character or is the end
is_char_boundary(s, idx) == \E k \in 0..Len(s) : StrLen(Take(s, k)) = idx

\* String::insert at a byte offset that is a character boundary
StringInsert(s, idx, c) ==
    LET k == CHOOSE k \in 0..Len(s) : StrLen(Take(s, k)) = idx
    IN  Take(s, k) \o <<c>> \o Skip(s, k)

\* String::pop: drops the last character, if any
StringPop(s) == IF s = <<>> THEN s ELSE SubSeq(s, 1, Len(s) - 1)

(***************************************************************************)
(* The stored value: serde_json::to_string / serde_json::from_str on       *)
(* Vec<Todo>, as a sequence of JSON tokens.  A text character is its own   *)
(* token; the id is written in decimal, one digit per token.               *)
(***************************************************************************)
Digits == <<"0", "1", "2", "3", "4", "5", "6", "7", "8", "9">>

DigitSet == {Digits[k] : k \in 1..10}

DigitVal(tok) == (CHOOSE k \in 1..10 : Digits[k] = tok) - 1

RECURSIVE Dec(_)
\* a usize in decimal
Dec(n) == IF n < 10 THEN <<Digits[n + 1]>>
          ELSE Dec(n \div 10) \o <<Digits[(n % 10) + 1]>>

\* TodoJson with the done field always written as false
TodoJsonDoneLost(t) ==
    <<"{", "\"id\"", ":">> \o Dec(t.id)
    \o <<",", "\"text\"", ":", "\"">> \o t.text \o <<"\"">>
    \o <<",", "\"done\"", ":", "false", "}">>

\* one Todo as serde writes the struct: fields in declaration order
TodoJson(t) ==
    <<"{", "\"id\"", ":">> \o Dec(t.id)
    \o <<",", "\"text\"", ":", "\"">> \o t.text \o <<"\"">>
    \o <<",", "\"done\"", ":", IF t.done THEN "true" ELSE "false", "}">>

RECURSIVE TodosJson(_)
TodosJson(ts) ==
    IF ts = <<>> THEN <<>>
    ELSE IF Len(ts) = 1 THEN TodoJson(ts[1])
    ELSE TodoJson(Head(ts)) \o <<",">> \o TodosJson(Tail(ts))

\* serde_json::to_string(&app.todos)
ToJson(ts) == <<"[">> \o TodosJson(ts) \o <<"]">>

\* EmptyArray as an empty object
EmptyObject == <<"{", "}">>

\* the value the code seeds an absent store with: "[]"
EmptyArray == <<"[", "]">>

At(s, p) == IF p >= 1 /\ p <= Len(s) THEN s[p] ELSE "EOF"

Bad == [ok |-> FALSE, val |-> <<>>, pos |-> 0]

RECURSIVE ParseDigits(_, _, _)
ParseDigits(s, p, acc) ==
    IF At(s, p) \in DigitSet
    THEN ParseDigits(s, p + 1, acc * 10 + DigitVal(At(s, p)))
    ELSE [ok |-> TRUE, val |-> acc, pos |-> p]

\* a number: at least one digit
ParseNat(s, p) == IF At(s, p) \in DigitSet THEN ParseDigits(s, p, 0) ELSE Bad

RECURSIVE ParseChars(_, _, _)
ParseChars(s, p, acc) ==
    IF At(s, p) = "\"" THEN [ok |-> TRUE, val |-> acc, pos |-> p + 1]
    ELSE IF At(s, p) \in Chars THEN ParseChars(s, p + 1, Append(acc, At(s, p)))
    ELSE Bad

\* a string: an opening quote, characters, a closing quote
ParseString(s, p) == IF At(s, p) = "\"" THEN ParseChars(s, p + 1, <<>>) ELSE Bad

ParseBool(s, p) ==
    IF At(s, p) = "true" THEN [ok |-> TRUE, val |-> TRUE, pos |-> p + 1]
    ELSE IF At(s, p) = "false" THEN [ok |-> TRUE, val |-> FALSE, pos |-> p + 1]
    ELSE [ok |-> FALSE, val |-> FALSE, pos |-> 0]

\* one Todo object; pos is the position after its closing brace
ParseTodo(s, p) ==
    IF ~(At(s, p) = "{" /\ At(s, p + 1) = "\"id\"" /\ At(s, p + 2) = ":")
    THEN Bad
    ELSE LET n == ParseNat(s, p + 3) IN
    IF ~(n.ok /\ At(s, n.pos) = "," /\ At(s, n.pos + 1) = "\"text\""
              /\ At(s, n.pos + 2) = ":")
    THEN Bad
    ELSE LET t == ParseString(s, n.pos + 3) IN
    IF ~(t.ok /\ At(s, t.pos) = "," /\ At(s, t.pos + 1) = "\"done\""
              /\ At(s, t.pos + 2) = ":")
    THEN Bad
    ELSE LET d == ParseBool(s, t.pos + 3) IN
    IF ~(d.ok /\ At(s, d.pos) = "}")
    THEN Bad
    ELSE [ok |-> TRUE,
          val |-> <<[id |-> n.val, text |-> t.val, done |-> d.val]>>,
          pos |-> d.pos + 1]

RECURSIVE ParseElements(_, _, _)
\* the elements of a non-empty array, up to and including the closing bracket
ParseElements(s, p, acc) ==
    LET t == ParseTodo(s, p) IN
    IF ~t.ok THEN Bad
    ELSE IF At(s, t.pos) = "," THEN ParseElements(s, t.pos + 1, acc \o t.val)
    ELSE IF At(s, t.pos) = "]"
         THEN [ok |-> TRUE, val |-> acc \o t.val, pos |-> t.pos + 1]
    ELSE Bad

\* serde_json::from_str::<Vec<Todo>>: ok is FALSE when decoding fails
FromJson(s) ==
    IF At(s, 1) # "[" THEN Bad
    ELSE LET r == IF At(s, 2) = "]"
                  THEN [ok |-> TRUE, val |-> <<>>, pos |-> 3]
                  ELSE ParseElements(s, 2, <<>>)
         IN  IF r.ok /\ r.pos = Len(s) + 1 THEN r ELSE Bad

(***************************************************************************)
(* struct App and its methods.  An App value is a record of the fields.    *)
(***************************************************************************)
\* impl Default for App
AppDefault ==
    [input |-> <<>>, cursor_position |-> 0, input_mode |-> "Normal",
     count |-> 0, todos |-> <<>>, editing |-> <<>>]

\* the App held by the run loop
App ==
    [input |-> input, cursor_position |-> cursor_position,
     input_mode |-> input_mode, count |-> count, todos |-> todos,
     editing |-> editing]

saturating_sub(a, b) == IF a > b THEN a - b ELSE 0

\* new_cursor_pos.clamp(0, self.input.len()): the upper limit is in bytes
clamp_cursor(a, new_cursor_pos) ==
    IF new_cursor_pos < 0 THEN 0
    ELSE IF new_cursor_pos > StrLen(a.input) THEN StrLen(a.input)
    ELSE new_cursor_pos

move_cursor_left(a) ==
    [a EXCEPT !.cursor_position = clamp_cursor(a, saturating_sub(a.cursor_position, 1))]

move_cursor_right(a) ==
    [a EXCEPT !.cursor_position = clamp_cursor(a, a.cursor_position + 1)]

\* String::insert panics unless the byte offset is a character boundary
enter_char_panics(a) == ~is_char_boundary(a.input, a.cursor_position)

enter_char(a, new_char) ==
    move_cursor_right(
        [a EXCEPT !.input = StringInsert(a.input, a.cursor_position, new_char)])

delete_char(a) ==
    IF a.cursor_position # 0
    THEN move_cursor_left(
             [a EXCEPT !.input = Take(a.input, a.cursor_position - 1)
                                 \o Skip(a.input, a.cursor_position)])
    ELSE a

\* Vec::insert panics when the index is beyond the length
submit_message_panics(a) == a.count > Len(a.todos)

\* Vec::insert(index, x)
VecInsert(v, index, x) == SubSeq(v, 1, index) \o <<x>> \o SubSeq(v, index + 1, Len(v))

submit_message(a) ==
    [a EXCEPT !.editing = Append(a.editing, FALSE),
              !.todos = VecInsert(a.todos, a.count,
                            [id |-> a.count, text |-> a.input, done |-> FALSE]),
              !.input = <<>>,
              !.cursor_position = 0,
              !.count = a.count + 1]

(***************************************************************************)
(* run_app: the key match (lines 169-226).  Vec indices are 0-based in the *)
(* code and 1-based here: element i of the code is element i + 1.          *)
(***************************************************************************)
\* Updating, Enter: back to Normal, and the flag of every listed task cleared
UpdatingEnter(a) ==
    [a EXCEPT !.input_mode = "Normal",
              !.editing = [k \in 1..Len(a.editing) |->
                              IF k <= Len(a.todos) THEN FALSE ELSE a.editing[k]]]

\* UpdatingChar that writes to the first task of the list
UpdatingCharFirst(a, to_insert) ==
    [a EXCEPT !.todos = [k \in 1..Len(a.todos) |->
                            IF k = 1
                            THEN [a.todos[k] EXCEPT !.text =
                                     StringInsert(@, StrLen(@), to_insert)]
                            ELSE a.todos[k]]]

\* Updating, Char: the character goes to the end of every flagged task's text
UpdatingChar(a, to_insert) ==
    [a EXCEPT !.todos = [k \in 1..Len(a.todos) |->
                            IF a.editing[k]
                            THEN [a.todos[k] EXCEPT !.text =
                                     StringInsert(@, StrLen(@), to_insert)]
                            ELSE a.todos[k]]]

\* Updating, Backspace: String::pop on every flagged task's text
UpdatingBackspace(a) ==
    [a EXCEPT !.todos = [k \in 1..Len(a.todos) |->
                            IF a.editing[k]
                            THEN [a.todos[k] EXCEPT !.text = StringPop(@)]
                            ELSE a.todos[k]]]

\* the outcome of one key event: res is "continue", "exit" (return Ok) or "panic"
HandleKey(a, key) ==
    IF a.input_mode = "Normal"
    THEN [res |-> IF key.code = "Esc" THEN "exit" ELSE "continue", app |-> a]
    ELSE IF a.input_mode = "Editing" /\ key.kind = "Press"
    THEN IF key.code = "Enter"
         THEN IF submit_message_panics(a) THEN [res |-> "panic", app |-> a]
              ELSE [res |-> "continue", app |-> submit_message(a)]
         ELSE IF key.code = "Char"
         THEN IF enter_char_panics(a) THEN [res |-> "panic", app |-> a]
              ELSE [res |-> "continue", app |-> enter_char(a, key.ch)]
         ELSE IF key.code = "Backspace"
         THEN [res |-> "continue", app |-> delete_char(a)]
         ELSE IF key.code = "Left"
         THEN [res |-> "continue", app |-> move_cursor_left(a)]
         ELSE IF key.code = "Right"
         THEN [res |-> "continue", app |-> move_cursor_right(a)]
         ELSE [res |-> "continue", app |-> a]
    ELSE IF a.input_mode = "Updating" /\ key.kind = "Press"
    THEN IF key.code = "Enter"
         THEN [res |-> "continue", app |-> UpdatingEnter(a)]
         ELSE IF key.code = "Char"
         THEN [res |-> "continue", app |-> UpdatingChar(a, key.ch)]
         ELSE IF key.code = "Backspace"
         THEN [res |-> "continue", app |-> UpdatingBackspace(a)]
         ELSE [res |-> "continue", app |-> a]
    ELSE [res |-> "continue", app |-> a]

(***************************************************************************)
(* run_app: the mouse match (lines 227-289).                               *)
(***************************************************************************)
\* column >= 1 && row == 3 || row == 2 || row == 1
ClickMode(column, row) ==
    IF (column >= 1 /\ row = 3) \/ row = 2 \/ row = 1 THEN "Editing" ELSE "Normal"

\* ToggleDone that sets done instead of flipping it
ToggleDoneSet(a, i) == [a EXCEPT !.todos[i + 1].done = TRUE]

\* app.todos[i].done = !app.todos[i].done
ToggleDone(a, i) == [a EXCEPT !.todos[i + 1].done = ~@]

\* Vec::remove(i)
VecRemove(v, i) == SubSeq(v, 1, i) \o SubSeq(v, i + 2, Len(v))

\* Renumber that leaves the ids as they are
RenumberNone(ts) == ts

\* while j < app.todos.len() { app.todos[j].id = j; j += 1 }
Renumber(ts) == [k \in 1..Len(ts) |-> [ts[k] EXCEPT !.id = k - 1]]

\* DeleteTodo that removes the task after the clicked one when there is one
DeleteTodoNext(a, i) ==
    [a EXCEPT !.todos = Renumber(VecRemove(a.todos,
                             IF i + 1 < Len(a.todos) THEN i + 1 ELSE i)),
              !.count = a.count - 1]

\* the delete branch: the task goes, count drops, ids are reassigned;
\* app.editing is left as it is
DeleteTodo(a, i) ==
    [a EXCEPT !.todos = Renumber(VecRemove(a.todos, i)),
              !.count = a.count - 1]

\* the text branch
BeginEdit(a, i) ==
    [a EXCEPT !.editing[i + 1] = TRUE, !.input_mode = "Updating"]

\* ClearEdit that leaves the flag as it is
ClearEditNot(a, i) == a

\* the final else branch
ClearEdit(a, i) == [a EXCEPT !.editing[i + 1] = FALSE]

\* the row test of the loop body: i + 5 for the first task, 5 + rw afterwards
RowHit(i, rw, row) == IF i = 0 THEN row = i + 5 ELSE row = 5 + rw

\* one pass of the loop body for index i
ClickBody(a, i, rw, column, row) ==
    IF (column = 3 \/ column = 4) /\ RowHit(i, rw, row) THEN ToggleDone(a, i)
    ELSE IF column = 56 /\ RowHit(i, rw, row) THEN DeleteTodo(a, i)
    ELSE IF column > 5 /\ column < 56 /\ RowHit(i, rw, row) THEN BeginEdit(a, i)
    ELSE ClearEdit(a, i)

RECURSIVE ClickLoop(_, _, _, _, _)
\* while i < app.todos.len() { ...; i += 1; rw += 3 }
ClickLoop(a, i, rw, column, row) ==
    IF i < Len(a.todos)
    THEN ClickLoop(ClickBody(a, i, rw, column, row), i + 1, rw + 3, column, row)
    ELSE a

IsLeftClick(m) == m.kind = "UpLeft" \/ m.kind = "DownLeft"

\* the App after one mouse event
HandleMouse(a, m) ==
    IF IsLeftClick(m)
    THEN ClickLoop([a EXCEPT !.input_mode = ClickMode(m.column, m.row)],
                   0, 0, m.column, m.row)
    ELSE a

(***************************************************************************)
(* ui (lines 293-366): the conditions under which drawing does not return. *)
(***************************************************************************)
\* for _ in 0..17: the number of three-row boxes laid out
TaskBoxes == 17
\* while i < 48 - t.text.len(): the padded width of a task's text
TextWidth == 48

\* chunks has one header row, TaskBoxes boxes and one filler
NumChunks == 1 + TaskBoxes + 1

\* 48 - t.text.len() underflows, app.editing[t.id] or chunks[2 + t.id] is
\* out of range
UiPanics(a) ==
    \E k \in 1..Len(a.todos) :
        \/ StrLen(a.todos[k].text) > TextWidth
        \/ a.todos[k].id >= Len(a.editing)
        \/ 2 + a.todos[k].id >= NumChunks

\* the style a task is drawn in is chosen by app.editing[t.id].edit
EditingStyle(a, k) == a.editing[a.todos[k].id + 1]

\* ui calls f.set_cursor for the input box in Editing mode and for every
\* task drawn in the editing style
CursorSet(a) ==
    \/ a.input_mode = "Editing"
    \/ \E k \in 1..Len(a.todos) : EditingStyle(a, k)

(***************************************************************************)
(* Input events (crossterm::event::Event) the model draws from.            *)
(***************************************************************************)
Ev(type, code, ch, kind, column, row) ==
    [type |-> type, code |-> code, ch |-> ch, kind |-> kind,
     column |-> column, row |-> row]

\* every key pressed, and three of them released
KeyEvents ==
    {Ev("Key", code, "", "Press", 0, 0) :
        code \in {"Esc", "Enter", "Backspace", "Left", "Right", "Tab"}}
    \cup {Ev("Key", "Char", c, "Press", 0, 0) : c \in Chars}
    \cup {Ev("Key", code, "", "Release", 0, 0) : code \in {"Esc", "Enter"}}
    \cup {Ev("Key", "Char", "a", "Release", 0, 0)}

\* a column left of the frame, both checkbox columns, the column between
\* checkbox and text, the first text column and the delete mark
Columns == {0, 3, 4, 5, 6, 56}

\* the header row, the input box, the text row of every task of a full list
\* and a row below the list
Rows == {0, 1, 2, 3} \cup {5 + 3 * i : i \in 0..MaxTodos}

\* the checkbox, the last text column and the delete mark
UpColumns == {3, 55, 56}

\* the last row of the input box and the text row of the first two tasks
UpRows == {3, 5, 8}

\* a button press anywhere on the grid, a release at some places, a move
MouseEvents ==
    {Ev("Mouse", "", "", "DownLeft", column, row) :
        column \in Columns, row \in Rows}
    \cup {Ev("Mouse", "", "", "UpLeft", column, row) :
        column \in UpColumns, row \in UpRows}
    \cup {Ev("Mouse", "", "", "Moved", 3, 5)}

\* neither a key nor a mouse event
OtherEvents == {Ev("Resize", "", "", "", 0, 0)}

\* events that are not key events, one of each kind: the first event::read
\* looks at nothing else of them
NotKeyEvents ==
    {Ev("Mouse", "", "", kind, 3, 5) : kind \in {"DownLeft", "UpLeft", "Moved"}}
    \cup OtherEvents

\* events that are not mouse events, one of each kind: the second
\* event::read looks at nothing else of them
NotMouseEvents ==
    {Ev("Key", "Enter", "", "Press", 0, 0), Ev("Key", "Esc", "", "Release", 0, 0)}
    \cup OtherEvents

(***************************************************************************)
(* History: which input the latest step handled ("None" when it handled    *)
(* none).  op names the input; i is                                        *)
(* the index of the task whose row a click is on, or the row of a click on *)
(* no task's row.  The task boxes follow the header row (row 0) and the    *)
(* input box (rows 1-3); box i covers rows 4 + 3i .. 6 + 3i and its text   *)
(* line is row 5 + 3i.  On a text line the checkbox is at columns 3-4, the *)
(* text at columns 6-55 and the delete mark at column 56.                  *)
(***************************************************************************)
Label(op, i) == [op |-> op, i |-> i]

NoEvent == Label("None", 0)

KeyLabel(key) == Label(IF key.kind = "Press" THEN key.code ELSE "Release", 0)

ClickLabel(a, m) ==
    IF ~(m.kind = "UpLeft" \/ m.kind = "DownLeft") THEN Label("Moved", 0)
    ELSE IF \E i \in 0..(Len(a.todos) - 1) : m.row = 5 + 3 * i
    THEN LET i == CHOOSE i \in 0..(Len(a.todos) - 1) : m.row = 5 + 3 * i IN
         IF m.column \in {3, 4} THEN Label("Checkbox", i)
         ELSE IF m.column = 56 THEN Label("Delete", i)
         ELSE IF m.column \in 6..55 THEN Label("Text", i)
         ELSE Label("Margin", i)
    ELSE IF m.row <= 3 THEN Label("Header", m.row)
    ELSE Label("Below", 0)

\* an event that was read and matched neither pattern; i is 1 for a key
\* event, 0 for any other event
Dropped(ev) == Label("Dropped", IF ev.type = "Key" THEN 1 ELSE 0)

(***************************************************************************)
(* The registry value "todos": absent, or a string.                        *)
(***************************************************************************)
Absent == [present |-> FALSE, value |-> <<>>]

Stored(v) == [present |-> TRUE, value |-> v]

\* a stored string that is not a JSON array of tasks
CorruptValue == <<"[", "{">>

(***************************************************************************)
(* State machine.  pc: "main" (the process starts), "start" (the terminal   *)
(* is set up, run_app not yet called), "head" (at the                      *)
(* top of the loop body, line 165), "read1" (blocked in the first          *)
(* event::read of the iteration), "read2" (blocked in the second one),     *)
(* "exited" (run_app returned Ok), "failed" (run_app returned Err),        *)
(* "restored" (main has restored the terminal), "stopped" (main has        *)
(* returned), "panicked" (the process was ended by a panic).               *)
(* err says which call produced the Err that run_app returned: "open"      *)
(* (create_subkey), "store" (set_value), "decode" (from_str), "draw"       *)
(* (terminal.draw), "read" (event::read); "setup" and "restore" are main's  *)
(* own failures.                                                           *)
(* term is the terminal: raw mode on, alternate screen entered, cursor     *)
(* visible.  printed is the error main has printed ("" when none).         *)
(* env is what the outside does to the step: "ok", "open_err", "store_err" *)
(* (a set_value fails), "draw_err", "raw_err" (enable_raw_mode fails),     *)
(* "setup_err" (execute! or Terminal::new fails), "restore_err".           *)
(***************************************************************************)
\* run_app has ended
Ended == {"exited", "failed", "panicked"}

SetApp(a) ==
    /\ input' = a.input
    /\ cursor_position' = a.cursor_position
    /\ input_mode' = a.input_mode
    /\ count' = a.count
    /\ todos' = a.todos
    /\ editing' = a.editing

\* the terminal as the process finds it
TermNormal == [raw |-> FALSE, alt |-> FALSE, cursor |-> TRUE]

Init ==
    /\ pc = "main"
    /\ term = TermNormal
    /\ printed = ""
    /\ err = ""
    /\ input = AppDefault.input
    /\ cursor_position = AppDefault.cursor_position
    /\ input_mode = AppDefault.input_mode
    /\ count = AppDefault.count
    /\ todos = AppDefault.todos
    /\ editing = AppDefault.editing
    /\ store \in {Absent, Stored(CorruptValue)}
    /\ last = NoEvent

\* main up to the call of run_app (lines 110-123): enable_raw_mode, then
\* execute!(EnterAlternateScreen, ...) and Terminal::new, each left by ? on
\* an error; a failing execute! may or may not have entered the alternate
\* screen
Setup(env) ==
    /\ pc = "main"
    /\ last' = Label("Setup", 0)
    /\ UNCHANGED <<store, app_vars, printed>>
    /\ IF env = "raw_err"
       THEN pc' = "stopped" /\ err' = "setup" /\ UNCHANGED term
       ELSE IF env = "setup_err"
       THEN /\ pc' = "stopped"
            /\ err' = "setup"
            /\ \E alt \in BOOLEAN : term' = [term EXCEPT !.raw = TRUE, !.alt = alt]
       ELSE /\ pc' = "start"
            /\ err' = ""
            /\ term' = [term EXCEPT !.raw = TRUE, !.alt = TRUE]

\* lines 147-153: an absent value is first set to "[]"
Seeded(st) == IF st.present THEN st ELSE Stored(EmptyArray)

\* lines 147-155: what a run loads from the stored value st
Load(st) == FromJson(Seeded(st).value)

\* lines 155-163: the decoded list, its length, one cleared flag per task
Loaded(a, ts) ==
    [a EXCEPT !.todos = ts, !.count = Len(ts),
              !.editing = a.editing \o [k \in 1..Len(ts) |-> FALSE]]

\* run_app up to the loop (lines 142-163)
Startup(env) ==
    /\ pc = "start"
    /\ last' = Label("Startup", IF store.present THEN 1 ELSE 0)
    /\ UNCHANGED main_vars
    /\ env = "store_err" => ~store.present
    /\ IF env = "open_err" \/ env = "store_err"
       THEN \* create_subkey, or the seeding set_value, fails
            /\ pc' = "failed"
            /\ err' = IF env = "open_err" THEN "open" ELSE "store"
            /\ UNCHANGED <<store, app_vars>>
       ELSE /\ store' = Seeded(store)
            /\ IF Load(store).ok
               THEN /\ pc' = "head"
                    /\ err' = ""
                    /\ SetApp(Loaded(App, Load(store).val))
               ELSE /\ pc' = "failed"
                    /\ err' = "decode"
                    /\ UNCHANGED app_vars

\* Save of the list without its last task
SaveButLast(a) ==
    Stored(ToJson(SubSeq(a.todos, 1, IF a.todos = <<>> THEN 0 ELSE Len(a.todos) - 1)))

\* the value the loop writes: serde_json::to_string, then key.set_value
Save(a) == Stored(ToJson(a.todos))

\* the top of the loop body (lines 165-167): save, draw, then block in
\* event::read; a completed draw leaves the cursor visible when ui has set
\* one and hidden when it has not
LoopHead(env) ==
    /\ pc = "head"
    /\ last' = NoEvent
    /\ UNCHANGED <<app_vars, printed>>
    /\ IF env = "store_err"
       THEN UNCHANGED <<store, term>> /\ pc' = "failed" /\ err' = "store"
       ELSE /\ store' = Save(App)
            /\ IF UiPanics(App)
               THEN pc' = "panicked" /\ err' = "" /\ UNCHANGED term
               ELSE IF env = "draw_err"
               THEN pc' = "failed" /\ err' = "draw" /\ UNCHANGED term
               ELSE /\ pc' = "read1"
                    /\ err' = ""
                    /\ term' = [term EXCEPT !.cursor = CursorSet(App)]

RECURSIVE SumLen(_)
SumLen(ts) == IF ts = <<>> THEN 0 ELSE Len(Head(ts).text) + SumLen(Tail(ts))

\* the characters held by the App
TotalChars(a) == Len(a.input) + SumLen(a.todos)

\* the App stays within the bounds b: most tasks, most edit flags, most
\* characters in all, most characters in the input buffer
Within(a, b) ==
    /\ Len(a.todos) <= b.todos
    /\ Len(a.editing) <= b.editing
    /\ TotalChars(a) <= b.chars
    /\ Len(a.input) <= b.input

\* the bounds of the model
InBounds ==
    [todos |-> MaxTodos, editing |-> MaxEditing, chars |-> MaxChars,
     input |-> MaxChars]

\* the first event::read returns a key event (lines 169-226); b is the
\* bound the resulting App is kept within
KeyEventWithin(key, b) ==
    /\ pc = "read1"
    /\ last' = KeyLabel(key)
    /\ UNCHANGED <<store, err, main_vars>>
    /\ \E h \in {HandleKey(App, key)} :
       IF h.res = "continue"
       THEN /\ Within(h.app, b)
            /\ pc' = "head"
            /\ SetApp(h.app)
       ELSE /\ pc' = IF h.res = "exit" THEN "exited" ELSE "panicked"
            /\ UNCHANGED app_vars

KeyEvent(key) == KeyEventWithin(key, InBounds)

\* the first event::read returns something else: the event is dropped and
\* the second event::read is entered (line 227)
NotKeyEvent(ev) ==
    /\ pc = "read1"
    /\ last' = Dropped(ev)
    /\ pc' = "read2"
    /\ UNCHANGED <<err, store, app_vars, main_vars>>

\* the second event::read returns a mouse event (lines 227-289); a left
\* click ends with a save of its own (lines 284-285)
MouseEvent(m, env) ==
    /\ pc = "read2"
    /\ env = "store_err" => IsLeftClick(m)
    /\ last' = ClickLabel(App, m)
    /\ UNCHANGED main_vars
    /\ \E h \in {HandleMouse(App, m)} :
        /\ SetApp(h)
        /\ IF env = "store_err"
           THEN UNCHANGED store /\ pc' = "failed" /\ err' = "store"
           ELSE /\ store' = IF IsLeftClick(m) THEN Save(h) ELSE store
                /\ pc' = "head"
                /\ err' = ""

\* the second event::read returns something else: nothing is done with it
NotMouseEvent(ev) ==
    /\ pc = "read2"
    /\ last' = Dropped(ev)
    /\ pc' = "head"
    /\ UNCHANGED <<err, store, app_vars, main_vars>>

\* event::read fails
ReadError ==
    /\ pc \in {"read1", "read2"}
    /\ pc' = "failed"
    /\ err' = "read"
    /\ last' = Label("ReadError", 0)
    /\ UNCHANGED <<store, app_vars, main_vars>>

\* main after run_app has returned (lines 125-131): disable_raw_mode, then
\* execute!(LeaveAlternateScreen, DisableMouseCapture), then show_cursor,
\* each left by ? on an error.  The App was moved into run_app (line 124)
\* and is gone once run_app has returned.
Restore(env) ==
    /\ pc \in {"exited", "failed"}
    /\ last' = Label("Restore", 0)
    /\ SetApp(AppDefault)
    /\ UNCHANGED <<store, printed>>
    /\ IF env = "restore_err"
       THEN /\ pc' = "stopped"
            /\ err' = "restore"
            /\ \E done \in 0..2 :
                   term' = [raw |-> IF done >= 1 THEN FALSE ELSE term.raw,
                            alt |-> IF done >= 2 THEN FALSE ELSE term.alt,
                            cursor |-> term.cursor]
       ELSE /\ pc' = "restored"
            /\ err' = err
            /\ term' = [raw |-> FALSE, alt |-> FALSE, cursor |-> TRUE]

\* Report that prints nothing
ReportNothing ==
    /\ pc = "restored"
    /\ pc' = "stopped"
    /\ printed' = ""
    /\ last' = Label("Report", 0)
    /\ UNCHANGED <<err, store, app_vars, term>>

\* lines 133-137: the error run_app returned is printed, and main returns
Report ==
    /\ pc = "restored"
    /\ pc' = "stopped"
    /\ printed' = err
    /\ last' = Label("Report", 0)
    /\ UNCHANGED <<err, store, app_vars, term>>

\* the process has ended: main has returned, or a panic has ended it
ProcessEnded == pc \in {"stopped", "panicked"}

\* the program is started again in a fresh terminal: main builds a fresh App
\* (line 123)
Restart ==
    /\ ProcessEnded
    /\ pc' = "main"
    /\ err' = ""
    /\ SetApp(AppDefault)
    /\ last' = NoEvent
    /\ term' = TermNormal
    /\ printed' = ""
    /\ UNCHANGED store

Next ==
    \/ \E env \in {"ok", "raw_err", "setup_err"} : Setup(env)
    \/ \E env \in {"ok", "open_err", "store_err"} : Startup(env)
    \/ \E env \in {"ok", "store_err", "draw_err"} : LoopHead(env)
    \/ \E key \in KeyEvents : KeyEvent(key)
    \/ \E ev \in NotKeyEvents : NotKeyEvent(ev)
    \/ \E m \in MouseEvents, env \in {"ok", "store_err"} : MouseEvent(m, env)
    \/ \E ev \in NotMouseEvents : NotMouseEvent(ev)
    \/ ReadError
    \/ \E env \in {"ok", "restore_err"} : Restore(env)
    \/ Report
    \/ Restart

Spec == Init /\ [][Next]_vars

(***************************************************************************)
(* The run of one session in which tasks are added with an empty text and  *)
(* the first task is edited in place: the same steps as above, with the    *)
(* events that do this and bounds that let the list and a text grow past   *)
(* what ui lays out.                                                       *)
(***************************************************************************)
\* most tasks in the list
RenderMaxTodos == 18
\* most characters in a task's text
RenderMaxLen == 49

\* Enter, and a one-byte character
RenderKeys ==
    {Ev("Key", "Enter", "", "Press", 0, 0), Ev("Key", "Char", "a", "Press", 0, 0)}

\* a press on the input box and one on the text of the first task
RenderClicks ==
    {Ev("Mouse", "", "", "DownLeft", 1, 1), Ev("Mouse", "", "", "DownLeft", 6, 5)}

\* the bounds of this run: characters are typed into a task's text only
RenderInBounds ==
    [todos |-> RenderMaxTodos, editing |-> RenderMaxTodos,
     chars |-> RenderMaxLen, input |-> 0]

RenderKeyEvent(key) == KeyEventWithin(key, RenderInBounds)

RenderInit == Init /\ store = Absent

RenderNext ==
    \/ Setup("ok")
    \/ Startup("ok")
    \/ LoopHead("ok")
    \/ \E key \in RenderKeys : RenderKeyEvent(key)
    \/ \E ev \in NotKeyEvents : NotKeyEvent(ev)
    \/ \E m \in RenderClicks : MouseEvent(m, "ok")

RenderSpec == RenderInit /\ [][RenderNext]_vars

(***************************************************************************)
(* Properties.                                                             *)
(***************************************************************************)
FlaggedTasks(ts, es) == {k \in 1..Len(ts) : k <= Len(es) /\ es[k]}

\* C1: in every reachable state the ids are exactly 0..count-1, each task's
\* id is its position in the list, and count is the length of the list.
C1_IdsArePositions ==
    /\ count = Len(todos)
    /\ \A k \in 1..Len(todos) : todos[k].id = k - 1

\* a delete click on the first of two tasks has left the second one, renumbered
C1_Witness ==
    /\ pc = "head"
    /\ last = Label("Delete", 0)
    /\ Len(todos) = 1
    /\ todos[1].text # <<>>

\* C2: in every reachable state the edit-flag vector is as long as the task
\* vector (deleting task i also removes flag i).
C2_FlagsAligned == Len(editing) = Len(todos)

\* C3: in every reachable state at most one task of the list has
\* editing = true.
C3_AtMostOneEditing == Cardinality(FlaggedTasks(todos, editing)) <= 1

\* C4: whenever the run loop is blocked waiting for an input event, and when
\* it has exited by the exit key, the stored value decodes to the task list
\* in memory.
C4_StoredIsCurrent ==
    pc \in {"read1", "read2", "exited"} =>
        LET stored == FromJson(store.value)
        IN  store.present /\ stored.ok /\ stored.val = todos

\* the loop waits for an event with two tasks in the list, the first with a
\* text, the second done
C4_Witness ==
    /\ pc = "read1"
    /\ Len(todos) = 2
    /\ todos[1].text # <<>>
    /\ todos[2].done

\* saving the list ts and loading it again yields ts
RoundTrip(ts) ==
    LET again == FromJson(Save([todos |-> ts]).value)
    IN  again.ok /\ again.val = ts

\* C5 as stated: after a run that loaded its list has ended in any way, the
\* next run's load yields the list that was in memory; and saving what a
\* run loads and loading it again yields the same list.
C5_SurvivesAnyEnd ==
    LET next == Load(store) IN
    /\ pc \in Ended /\ err \notin {"open", "decode"} =>
           next.ok /\ next.val = todos
    /\ next.ok => RoundTrip(next.val)

\* C5 amended: after a run that loaded its list has ended in any way other
\* than a failed store write, the next run's load yields the list that was
\* in memory; and saving what a run loads and loading it again yields the
\* same list.
C5_SurvivesEnd ==
    LET next == Load(store) IN
    /\ pc \in Ended /\ err \notin {"open", "decode", "store"} =>
           next.ok /\ next.val = todos
    /\ next.ok => RoundTrip(next.val)

\* a run has exited with two tasks, one done, one with a two-byte character
C5_Witness ==
    /\ pc = "exited"
    /\ Len(todos) = 2
    /\ todos[1].done
    /\ todos[2].text = <<"eacute">>

\* C6: a startup that finds no stored value either fails on a store call,
\* leaving the store as it was, or seeds the store with the empty array and
\* enters the loop with an empty list, count 0, no edit flags and mode
\* Normal; a startup that finds a value does not write the store, and a
\* stored value is only ever overwritten from inside the loop, which is
\* entered after the decoding.
C6_Startup ==
    [][/\ pc = "start" /\ pc' # "start" =>
            IF ~store.present
            THEN \/ pc' = "failed" /\ err' \in {"open", "store"} /\ store' = store
                 \/ /\ store' = Stored(<<"[", "]">>)
                    /\ pc' = "head"
                    /\ todos' = <<>>
                    /\ count' = 0
                    /\ editing' = <<>>
                    /\ input_mode' = "Normal"
            ELSE store' = store
       /\ store.present /\ store' # store => pc \in {"head", "read2"}]_vars

\* a run that found no stored value is about to enter its loop
C6_Witness ==
    /\ pc = "head"
    /\ last = Label("Startup", 0)
    /\ store = Stored(<<"[", "]">>)
    /\ todos = <<>>

\* the list ts without element i (0-based), the later ids lowered by one
WithoutTask(ts, i) ==
    [k \in 1..(Len(ts) - 1) |->
        IF k <= i THEN ts[k] ELSE [ts[k + 1] EXCEPT !.id = @ - 1]]

\* C7: a click on the delete column of task i leaves the old list without
\* element i, in order, with the id of every later task lowered by exactly
\* one and every other field of every remaining task unchanged.
C7_DeleteRemovesOne ==
    [][pc = "read2" /\ last'.op = "Delete" =>
        todos' = WithoutTask(todos, last'.i)]_vars

\* a delete click on the first of two tasks has left one task that is done
C7_Witness ==
    /\ last = Label("Delete", 0)
    /\ Len(todos) = 1
    /\ todos[1].done
    /\ Len(editing) >= 2

\* C8: Enter in Editing mode appends one task with the buffer as text, done
\* false and id the old count, leaves the other tasks unchanged, clears the
\* buffer and the cursor, increments count, and the new task's edit flag is
\* false.
C8_SubmitAddsFreshTask ==
    [][pc = "read1" /\ input_mode = "Editing" /\ last'.op = "Enter"
       /\ pc' # "panicked" =>
        /\ todos' = Append(todos, [id |-> count, text |-> input, done |-> FALSE])
        /\ input' = <<>>
        /\ cursor_position' = 0
        /\ count' = count + 1
        /\ Len(editing') >= Len(todos')
        /\ editing'[Len(todos')] = FALSE]_vars

\* C9: a click on the checkbox column of task i flips done of task i and
\* leaves every other field of every task, and the length and order of the
\* list, unchanged.
C9_CheckboxFlipsOne ==
    [][pc = "read2" /\ last'.op = "Checkbox" =>
        todos' = [todos EXCEPT ![last'.i + 1].done = ~@]]_vars

\* a checkbox click has cleared done on the second of two tasks, the first
\* one staying done
C9_Witness ==
    /\ last = Label("Checkbox", 1)
    /\ Len(todos) = 2
    /\ todos[1].done
    /\ ~todos[2].done
    /\ todos[2].text # <<>>

\* C10: an escape key press in Editing mode sets the mode to Normal and
\* leaves the task list and count unchanged.
C10_EscLeavesEditing ==
    [][pc = "read1" /\ input_mode = "Editing" /\ last'.op = "Esc" =>
        /\ input_mode' = "Normal"
        /\ todos' = todos
        /\ count' = count]_vars

\* C11: whenever the process has ended after raw mode was enabled, by the
\* exit key, by a failure of the terminal setup, by a store, draw or read
\* error in the run loop, or by a panic, the terminal is restored: raw mode
\* off, alternate screen left, cursor shown.  (A failure of the restoring
\* calls themselves is left out.)
C11_TerminalRestored ==
    ProcessEnded /\ err # "restore" => term = TermNormal

\* the errors of a startup whose store cannot be opened or whose stored
\* value does not decode
StartupErrors == {"open", "decode"}

\* C12: a startup that fails because the store cannot be opened or the
\* stored value does not decode leaves the store and the App as they were;
\* from there the loop is not entered: the only step is main's restoration,
\* and, the restoring calls having returned, the error is printed with the
\* terminal restored, before main returns.
C12_StartupFailure ==
    [][/\ pc = "start" /\ err' \in StartupErrors =>
            pc' = "failed" /\ store' = store /\ UNCHANGED app_vars
       /\ pc = "failed" /\ err \in StartupErrors =>
            /\ store' = store
            /\ \/ pc' = "restored" /\ err' = err /\ term' = TermNormal
               \/ pc' = "stopped" /\ err' = "restore"
       /\ pc = "restored" /\ err \in StartupErrors =>
            pc' = "stopped" /\ printed' = err /\ term' = TermNormal
                /\ store' = store
       /\ err' \in StartupErrors =>
            pc' \in {"failed", "restored", "stopped"}]_vars

\* a run that found a stored value it could not decode has ended: the value
\* is still stored, the terminal is restored and the error is printed
C12_Witness ==
    /\ pc = "stopped"
    /\ printed = "decode"
    /\ term = TermNormal
    /\ store = Stored(CorruptValue)

\* C13: a character key in Editing mode never panics; it puts the character
\* into the buffer at the cursor's character index, the characters before
\* and after it unchanged and in order, and advances the cursor by one.
C13_InsertAtCursor ==
    [][pc = "read1" /\ input_mode = "Editing" /\ last'.op = "Char" =>
        /\ pc' # "panicked"
        /\ \E c \in Chars :
               input' = Take(input, cursor_position) \o <<c>>
                            \o Skip(input, cursor_position)
        /\ cursor_position' = cursor_position + 1]_vars

\* C14: in every reachable state the cursor is a character index of the
\* input buffer: between 0 and the number of characters in it.
C14_CursorInBuffer == cursor_position \in 0..Len(input)

\* C15: a loop iteration reads exactly one event, so that an event the
\* first event::read returns (a left-button press or release among them) is
\* never followed by a second read in the same iteration; and no key event
\* that an event::read has returned is dropped without being dispatched.
C15_NoEventDropped ==
    [][/\ pc = "read1" => pc' # "read2"
       /\ ~(last'.op = "Dropped" /\ last'.i = 1)]_vars

\* C16: in every reachable state whose mode is Normal, ui sets no cursor
\* and draws no task in the editing style; and a task is drawn in the
\* editing style, with the cursor at the end of its text, only in Updating
\* mode.
C16_NoEditOutsideUpdating ==
    /\ input_mode = "Normal" => ~CursorSet(App)
    /\ \A k \in FlaggedTasks(todos, editing) : input_mode = "Updating"

\* C17: a left click on the header row or the input box (rows 0-3, any
\* column) sets the mode to Editing and a left click below all task rows
\* sets it to Normal; both leave the task list unchanged and no task of the
\* list with its edit flag set.
C17_ClickOffTasks ==
    [][pc = "read2" /\ last'.op \in {"Header", "Below"} =>
        /\ input_mode' = IF last'.op = "Header" THEN "Editing" ELSE "Normal"
        /\ todos' = todos
        /\ FlaggedTasks(todos', editing') = {}]_vars

C19_RenderTotal ==
    /\ pc # "panicked"
    /\ \A k \in 1..Len(todos) :
           /\ 2 + todos[k].id < NumChunks
           /\ TextWidth - StrLen(todos[k].text) >= 0

\* C20: whenever the mode is Updating exactly one task of the list has its
\* edit flag set; and Enter in Updating mode leaves mode Normal with no task
\* of the list flagged.
C20_UpdatingHasOneTarget ==
    [][/\ input_mode' = "Updating" =>
            Cardinality(FlaggedTasks(todos', editing')) = 1
       /\ pc = "read1" /\ input_mode = "Updating" /\ last'.op = "Enter" =>
            /\ input_mode' = "Normal"
            /\ FlaggedTasks(todos', editing') = {}
            /\ todos' = todos]_vars

\* the loop waits for a key in Updating mode, the second of two tasks being
\* the one edited, with more flags than tasks
C20_Witness ==
    /\ pc = "read1"
    /\ input_mode = "Updating"
    /\ Len(todos) = 2
    /\ ~editing[1]
    /\ editing[2]
    /\ Len(editing) > 2

====
